---------------------------- MODULE Spec2Model ----------------------------
(***************************************************************************)
(* Budget Performance & Alerting Engine of the supermarket expense tracker *)
(* (BudgetService + BudgetController).                                     *)
(*                                                                         *)
(* Money is held in cents (the store keeps DECIMAL(10,2) values), dates    *)
(* as day ordinals (ISO dates compare as their day ordinals do), ISO       *)
(* datetimes as a day and a time of day, and                               *)
(* percentages as exact fractions; percentages rounded to two decimals are *)
(* held in hundredths of a percent.  The budgets table is the table the    *)
(* service's SQL names (columns id, userId, name, amount, category,        *)
(* period, startDate, endDate, alertThreshold, isActive, createdAt,        *)
(* updatedAt); it carries no CHECK constraint.                             *)
(***************************************************************************)
EXTENDS Integers, Sequences, FiniteSets, TLC

\* ------------------------------------------------------------------ bounds
\* Rows ever inserted into the budgets table (caps the AUTOINCREMENT id).
MaxBudgets == 2
\* Rows ever inserted into the expenses table.
MaxExpenses == 1
\* Seconds that datetime('now') may advance.
MaxClock == 1

\* ------------------------------------------------------------ value spaces
Users == {1, 2}

\* JavaScript undefined / SQL NULL, as values of the string-typed fields.
Undefined == "<undefined>"
Null == "<null>"

\* Request bodies of POST /budgets: the fixture of the creation test and the
\* invalid fixture of the validation test.
ValidBudgetData ==
    [name |-> "Groceries Budget", amount |-> 30000, category |-> "Groceries",
     period |-> "monthly", startDate |-> 1, endDate |-> 2,
     alertThreshold |-> 80, isActive |-> TRUE]

InvalidBudgetData ==
    [name |-> "", amount |-> -10000, category |-> Undefined,
     period |-> "monthly", startDate |-> 2, endDate |-> 1,
     alertThreshold |-> 150, isActive |-> TRUE]

BudgetInputs == {ValidBudgetData, InvalidBudgetData}

\* Further request bodies, for the stores the analysis is evaluated on: a
\* budget over all categories, an inactive one and one of amount zero.
AllCategoriesBudgetData ==
    [name |-> "All Categories", amount |-> 50000, category |-> Undefined,
     period |-> "monthly", startDate |-> 1, endDate |-> 1,
     alertThreshold |-> 90, isActive |-> TRUE]

InactiveBudgetData ==
    [name |-> "Paused", amount |-> 20000, category |-> Undefined,
     period |-> "yearly", startDate |-> 1, endDate |-> 2,
     alertThreshold |-> 50, isActive |-> FALSE]

ZeroBudgetData ==
    [name |-> "Zero", amount |-> 0, category |-> "Groceries",
     period |-> "weekly", startDate |-> 1, endDate |-> 2,
     alertThreshold |-> 80, isActive |-> TRUE]

AnalysisBudgetInputs ==
    {ValidBudgetData, AllCategoriesBudgetData, InactiveBudgetData, ZeroBudgetData}

\* Request bodies of PUT /budgets/:id: partial budgets, keyed by field name.
UpdateInputs ==
    { [amount |-> 0],
      [isActive |-> FALSE],
      [id |-> 9, userId |-> 2],
      <<>> }

\* An ISO 8601 purchase_date: a day, with or without a time of day.
NoTime == "<none>"
Day(d) == [day |-> d, time |-> NoTime]
DayAt(d, t) == [day |-> d, time |-> t]

\* Rows written to the expenses table by the expense routes.
ExpenseInputs ==
    { [userId |-> 1, category |-> "Groceries", purchase_date |-> Day(1),
       amount |-> 23999],
      [userId |-> 1, category |-> "Groceries", purchase_date |-> DayAt(2, "18:30"),
       amount |-> 29999],
      [userId |-> 1, category |-> "Dairy", purchase_date |-> Day(1),
       amount |-> 42500],
      [userId |-> 2, category |-> "Groceries", purchase_date |-> Day(2),
       amount |-> 36000] }

\* One expense of each user, for the runs in which the budgets change too.
FewExpenseInputs == {e \in ExpenseInputs : e.amount \in {23999, 36000}}

\* ------------------------------------------------------------------- state
VARIABLES
    budgets,    \* the budgets table: id -> row
    nextId,     \* the table's AUTOINCREMENT sequence
    expenses,   \* the expenses table, in insertion order
    now,        \* datetime('now'), in seconds
    request,    \* the HTTP request answered last
    response,   \* the HTTP response to it
    tieOrder,   \* how this build of the store lists rows of equal sort key
    inFlight    \* the call that has run a statement and awaits its next one

vars == <<budgets, nextId, expenses, now, request, response, tieOrder, inFlight>>

\* ORDER BY createdAt DESC says nothing on rows of one second: a build of the
\* store lists them as it scans them, by ascending rowid or the reverse.
TieOrders == {"rowid", "reverse"}

NoRequest == [op |-> "none"]
NoResponse == [status |-> 0, success |-> FALSE, kind |-> "none"]
NoCall == [op |-> "none"]

Init ==
    /\ budgets = <<>>
    /\ nextId = 1
    /\ expenses = <<>>
    /\ now = 0
    /\ request = NoRequest
    /\ response = NoResponse
    /\ tieOrder \in TieOrders
    /\ inFlight = NoCall

\* ------------------------------------------------------- the budgets table
\* budgetData.category || null
OrNull(v) == IF v \in {Undefined, Null, ""} THEN Null ELSE v

\* budgetData.isActive ? 1 : 0
BoolToInt(b) == IF b THEN 1 ELSE 0

\* JavaScript truthiness of a stored isActive column (an INTEGER).
IsActive(b) == b.isActive # 0

\* JavaScript truthiness of a stored category column (TEXT or NULL).
HasCategory(b) == b.category \notin {Undefined, Null, ""}

\* INSERT INTO budgets (...) VALUES (..., datetime('now'), datetime('now'));
\* the id is the one the statement reports as lastID.
InsertedRow(id, userId, budgetData) ==
    [id |-> id, userId |-> userId, name |-> budgetData.name,
     amount |-> budgetData.amount, category |-> OrNull(budgetData.category),
     period |-> budgetData.period, startDate |-> budgetData.startDate,
     endDate |-> budgetData.endDate,
     alertThreshold |-> budgetData.alertThreshold,
     isActive |-> BoolToInt(budgetData.isActive),
     createdAt |-> now, updatedAt |-> now]

\* SELECT * FROM budgets WHERE id = ?  (undefined when no row has the id)
getBudgetById(table, budgetId) ==
    IF budgetId \in DOMAIN table
    THEN [kind |-> "budget", data |-> table[budgetId]]
    ELSE [kind |-> "undefined"]

\* res.status(code).json({ success: true, data })
JsonData(code, body) ==
    IF body.kind = "undefined"
    THEN [status |-> code, success |-> TRUE, kind |-> "undefined"]
    ELSE [status |-> code, success |-> TRUE, kind |-> body.kind, data |-> body.data]

\* res.status(code).json({ success: false, error: error.message })
JsonError(code, message) ==
    [status |-> code, success |-> FALSE, kind |-> "error", error |-> message]

\* POST /budgets: BudgetController.createBudget -> BudgetService.createBudget
CreateBudget(userId, budgetData) ==
    /\ nextId <= MaxBudgets
    /\ LET row == InsertedRow(nextId, userId, budgetData)
           table == (nextId :> row) @@ budgets
       IN /\ budgets' = table
          /\ response' = JsonData(201, getBudgetById(table, nextId))
    /\ nextId' = nextId + 1
    /\ request' = [op |-> "createBudget", userId |-> userId, body |-> budgetData]
    /\ UNCHANGED <<tieOrder, inFlight, expenses, now>>

\* WHERE id = ? AND userId = ?
Matches(table, budgetId, userId) ==
    budgetId \in DOMAIN table /\ table[budgetId].userId = userId

AllowedFields ==
    {"name", "amount", "category", "period", "startDate", "endDate",
     "alertThreshold", "isActive"}

\* SetClause with no list of allowed fields: every key is written.
SetClauseOfAnyKey(updates) == DOMAIN updates

\* The keys of the update object that make it into the SET clause.
SetClause(updates) == DOMAIN updates \cap AllowedFields

\* key === 'isActive' && typeof value === 'boolean' ? (value ? 1 : 0) : value
BoundValue(key, value) ==
    IF key = "isActive" /\ value \in BOOLEAN THEN BoolToInt(value) ELSE value

\* UPDATE budgets SET <setClause>, updatedAt = datetime('now')
\* WHERE id = ? AND userId = ?
UpdatedTable(table, budgetId, userId, updates) ==
    IF Matches(table, budgetId, userId)
    THEN [table EXCEPT ![budgetId] =
            [f \in DOMAIN @ |->
                IF f \in SetClause(updates) THEN BoundValue(f, updates[f])
                ELSE IF f = "updatedAt" THEN now
                ELSE @[f]]]
    ELSE table

\* updateBudget without the test for an empty set clause: the UPDATE runs
\* with its updatedAt assignment alone and the row is read back.
updateBudgetUnguarded(table, budgetId, userId, updates) ==
    LET written == UpdatedTable(table, budgetId, userId, updates)
    IN [table |-> written,
        response |-> JsonData(200, getBudgetById(written, budgetId))]

\* BudgetService.updateBudget with BudgetController.updateBudget around it:
\* the table after the call and the response to it.
updateBudget(table, budgetId, userId, updates) ==
    IF SetClause(updates) = {}
    THEN [table |-> table,
          response |-> JsonError(400, "No valid fields to update")]
    ELSE LET written == UpdatedTable(table, budgetId, userId, updates)
         IN [table |-> written,
             response |-> JsonData(200, getBudgetById(written, budgetId))]

\* PUT /budgets/:budgetId
UpdateBudget(budgetId, userId, updates) ==
    /\ request' = [op |-> "updateBudget", userId |-> userId,
                   budgetId |-> budgetId, body |-> updates]
    /\ budgets' = updateBudget(budgets, budgetId, userId, updates).table
    /\ response' = updateBudget(budgets, budgetId, userId, updates).response
    /\ UNCHANGED <<tieOrder, inFlight, nextId, expenses, now>>

\* DeletedTable with the row found by its id alone.
DeletedTableById(table, budgetId, userId) ==
    [i \in DOMAIN table \ {budgetId} |-> table[i]]

\* DeletedTable with the rows found by their owner alone.
DeletedTableByOwner(table, budgetId, userId) ==
    [i \in {j \in DOMAIN table : table[j].userId # userId} |-> table[i]]

\* DELETE FROM budgets WHERE id = ? AND userId = ?
DeletedTable(table, budgetId, userId) ==
    IF Matches(table, budgetId, userId)
    THEN [i \in DOMAIN table \ {budgetId} |-> table[i]]
    ELSE table

\* DeleteBudget with the owner's expenses deleted along with the budget.
DeleteBudgetCascading(budgetId, userId) ==
    /\ request' = [op |-> "deleteBudget", userId |-> userId, budgetId |-> budgetId]
    /\ budgets' = DeletedTable(budgets, budgetId, userId)
    /\ expenses' = IF Matches(budgets, budgetId, userId)
                   THEN SelectSeq(expenses, LAMBDA e : e.userId # userId)
                   ELSE expenses
    /\ response' = [status |-> 200, success |-> TRUE, kind |-> "message",
                    message |-> "Budget deleted successfully"]
    /\ UNCHANGED <<tieOrder, inFlight, nextId, now>>

\* DELETE /budgets/:budgetId: BudgetController.deleteBudget ->
\* BudgetService.deleteBudget
DeleteBudget(budgetId, userId) ==
    /\ request' = [op |-> "deleteBudget", userId |-> userId, budgetId |-> budgetId]
    /\ budgets' = DeletedTable(budgets, budgetId, userId)
    /\ response' = [status |-> 200, success |-> TRUE, kind |-> "message",
                    message |-> "Budget deleted successfully"]
    /\ UNCHANGED <<tieOrder, inFlight, nextId, expenses, now>>

\* The wall clock behind datetime('now') advances by a second.
Tick ==
    /\ now < MaxClock
    /\ now' = now + 1
    /\ UNCHANGED <<tieOrder, inFlight, budgets, nextId, expenses, request, response>>

\* POST /api/expenses (the expense routes): one more row in the ledger.
AddExpense(expense) ==
    /\ Len(expenses) < MaxExpenses
    /\ expenses' = Append(expenses, expense)
    /\ UNCHANGED <<tieOrder, inFlight, budgets, nextId, now, request, response>>

\* --------------------------------------------------------------- the reads
\* All orders of the ids in S.
RECURSIVE Orders(_)
Orders(S) ==
    IF S = {} THEN {<<>>}
    ELSE UNION {{<<x>> \o rest : rest \in Orders(S \ {x})} : x \in S}

\* SELECT * FROM budgets WHERE userId = ? ORDER BY createdAt DESC: the lists
\* the statement returns (one list: rows of one second come as this build
\* of the store orders them).
getUserBudgets(table, userId) ==
    LET mine == {id \in DOMAIN table : table[id].userId = userId}
        sorted(o) == \A i, j \in 1..Len(o) :
                        i < j =>
                          \/ table[o[i]].createdAt > table[o[j]].createdAt
                          \/ /\ table[o[i]].createdAt = table[o[j]].createdAt
                             /\ IF tieOrder = "rowid" THEN o[i] < o[j]
                                                      ELSE o[i] > o[j]
    IN {[k \in 1..Len(o) |-> table[o[k]]] : o \in {x \in Orders(mine) : sorted(x)}}

\* FilterActive with the filter left out.
FilterNone(list) == list

\* budgets.filter(b => b.isActive), as a list in the same order
RECURSIVE FilterActive(_)
FilterActive(list) ==
    IF list = <<>> THEN <<>>
    ELSE (IF IsActive(Head(list)) THEN <<Head(list)>> ELSE <<>>)
         \o FilterActive(Tail(list))

\* date(purchase_date): the day of a date or datetime, as a day ordinal.
\* (Budgets carry plain dates, which date(?) gives back as they are.)
SqlDate(d) == d.day

\* X BETWEEN lo AND hi
Between(x, lo, hi) == lo <= x /\ x <= hi

\* SumExpenses with the expenses of every user summed.
RECURSIVE SumExpensesOfAnyone(_, _, _)
SumExpensesOfAnyone(ledger, userId, budget) ==
    IF ledger = <<>> THEN 0
    ELSE LET e == Head(ledger)
             hit == /\ Between(e.purchase_date.day, budget.startDate, budget.endDate)
                    /\ HasCategory(budget) => e.category = budget.category
         IN (IF hit THEN e.amount ELSE 0)
            + SumExpensesOfAnyone(Tail(ledger), userId, budget)

\* SumExpenses with purchase_date compared as the text it is stored as: a
\* datetime of the last day sorts after that day's plain date.
RECURSIVE SumExpensesByText(_, _, _)
SumExpensesByText(ledger, userId, budget) ==
    IF ledger = <<>> THEN 0
    ELSE LET e == Head(ledger)
             hit == /\ e.userId = userId
                    /\ budget.startDate <= e.purchase_date.day
                    /\ \/ e.purchase_date.day < budget.endDate
                       \/ /\ e.purchase_date.day = budget.endDate
                          /\ e.purchase_date.time = NoTime
                    /\ HasCategory(budget) => e.category = budget.category
         IN (IF hit THEN e.amount ELSE 0)
            + SumExpensesByText(Tail(ledger), userId, budget)

\* SELECT COALESCE(SUM(amount), 0) FROM expenses WHERE userId = ?
\*   AND date(purchase_date) BETWEEN date(?) AND date(?) [AND category = ?]
RECURSIVE SumExpenses(_, _, _)
SumExpenses(ledger, userId, budget) ==
    IF ledger = <<>> THEN 0
    ELSE LET e == Head(ledger)
             hit == /\ e.userId = userId
                    /\ Between(SqlDate(e.purchase_date),
                               budget.startDate, budget.endDate)
                    /\ HasCategory(budget) => e.category = budget.category
         IN (IF hit THEN e.amount ELSE 0) + SumExpenses(Tail(ledger), userId, budget)

\* BudgetService.calculateBudgetSpent: result.total || 0
calculateBudgetSpent(ledger, userId, budget) == SumExpenses(ledger, userId, budget)

\* (spent / budget.amount) * 100 as an IEEE number: a finite fraction
\* num / den with den > 0, or Infinity, -Infinity, NaN when amount is 0.
Percentage(spent, amount) ==
    IF amount > 0 THEN [kind |-> "finite", num |-> spent * 100, den |-> amount]
    ELSE IF amount < 0 THEN [kind |-> "finite", num |-> -(spent * 100), den |-> -amount]
    ELSE IF spent > 0 THEN [kind |-> "Infinity"]
    ELSE IF spent < 0 THEN [kind |-> "-Infinity"]
    ELSE [kind |-> "NaN"]

\* percentageUsed >= k for a number k of percent
AtLeast(p, k) ==
    CASE p.kind = "finite" -> p.num >= k * p.den
      [] p.kind = "Infinity" -> TRUE
      [] OTHER -> FALSE

\* Math.round(x) of the fraction num / den, den > 0: the nearest integer,
\* a half going up.  The code rounds the IEEE double of the fraction; the
\* two agree on every amount and sum of expenses below (none of them sits
\* on an exact half, where the double may fall on either side).
MathRound(num, den) ==
    LET q == num \div den
        r == num % den
    IN IF 2 * r >= den THEN q + 1 ELSE q

\* Round2 with the hundredths cut off instead of rounded.
Round2Truncating(p) ==
    IF p.kind = "finite"
    THEN [kind |-> "finite", hundredths |-> (p.num * 100) \div p.den]
    ELSE [kind |-> p.kind]

\* Math.round(percentageUsed * 100) / 100, in hundredths of a percent
Round2(p) ==
    IF p.kind = "finite"
    THEN [kind |-> "finite", hundredths |-> MathRound(p.num * 100, p.den)]
    ELSE [kind |-> p.kind]

\* The status of one budget in getBudgetAnalysis.
Status(percentageUsed, alertThreshold) ==
    IF AtLeast(percentageUsed, 100) THEN "over"
    ELSE IF AtLeast(percentageUsed, alertThreshold) THEN "warning"
    ELSE "under"

\* Remaining with an overspent budget shown as nothing left.
RemainingClamped(amount, spent) ==
    IF amount - spent < 0 THEN 0 ELSE amount - spent

\* budget.amount - spent
Remaining(amount, spent) == amount - spent

\* One entry of analysis.budgetPerformance.
Performance(ledger, userId, budget) ==
    LET spent == calculateBudgetSpent(ledger, userId, budget)
        percentageUsed == Percentage(spent, budget.amount)
    IN [budgetId |-> budget.id, name |-> budget.name,
        budgetAmount |-> budget.amount, spent |-> spent,
        remaining |-> Remaining(budget.amount, spent),
        percentageUsed |-> Round2(percentageUsed),
        status |-> Status(percentageUsed, budget.alertThreshold)]

\* activeBudgets.reduce((sum, b) => sum + b.amount, 0)
RECURSIVE SumAmount(_)
SumAmount(list) ==
    IF list = <<>> THEN 0 ELSE Head(list).amount + SumAmount(Tail(list))

\* analysis.totalSpent += spent, over the loop
RECURSIVE SumSpent(_)
SumSpent(perfs) ==
    IF perfs = <<>> THEN 0 ELSE Head(perfs).spent + SumSpent(Tail(perfs))

\* CountOver with the budgets in warning counted too.
RECURSIVE CountNotUnder(_)
CountNotUnder(perfs) ==
    IF perfs = <<>> THEN 0
    ELSE (IF Head(perfs).status # "under" THEN 1 ELSE 0) + CountNotUnder(Tail(perfs))

\* if (status === 'over') analysis.overBudgetCount++, over the loop
RECURSIVE CountOver(_)
CountOver(perfs) ==
    IF perfs = <<>> THEN 0
    ELSE (IF Head(perfs).status = "over" THEN 1 ELSE 0) + CountOver(Tail(perfs))

\* Savings with a net overspend shown as no savings.
SavingsClamped(totalBudgetAmount, totalSpent) ==
    IF totalBudgetAmount - totalSpent < 0 THEN 0 ELSE totalBudgetAmount - totalSpent

\* analysis.totalBudgetAmount - analysis.totalSpent
Savings(totalBudgetAmount, totalSpent) == totalBudgetAmount - totalSpent

\* getBudgetAnalysis with the totals kept from the analysis answered before
\* (the analysis object held by the service instead of built per call).
getBudgetAnalysisKeepingTotals(ledger, userId, list) ==
    LET activeBudgets == FilterActive(list)
        perfs == [k \in 1..Len(activeBudgets) |->
                    Performance(ledger, userId, activeBudgets[k])]
        totalBudgetAmount == SumAmount(activeBudgets)
        kept == IF response.kind = "analysis" THEN response.data.totalSpent ELSE 0
        totalSpent == kept + SumSpent(perfs)
    IN [totalBudgets |-> Len(list),
        activeBudgets |-> Len(activeBudgets),
        totalBudgetAmount |-> totalBudgetAmount,
        totalSpent |-> totalSpent,
        overBudgetCount |-> CountOver(perfs),
        savings |-> Savings(totalBudgetAmount, totalSpent),
        budgetPerformance |-> perfs]

\* getBudgetAnalysis served from the analysis answered last, when there is
\* one (a result kept across requests).
getBudgetAnalysisCached(ledger, userId, list) ==
    IF response.kind = "analysis" THEN response.data
    ELSE LET activeBudgets == FilterActive(list)
             perfs == [k \in 1..Len(activeBudgets) |->
                         Performance(ledger, userId, activeBudgets[k])]
             totalBudgetAmount == SumAmount(activeBudgets)
             totalSpent == SumSpent(perfs)
         IN [totalBudgets |-> Len(list),
             activeBudgets |-> Len(activeBudgets),
             totalBudgetAmount |-> totalBudgetAmount,
             totalSpent |-> totalSpent,
             overBudgetCount |-> CountOver(perfs),
             savings |-> Savings(totalBudgetAmount, totalSpent),
             budgetPerformance |-> perfs]

\* BudgetService.getBudgetAnalysis, on the list getUserBudgets returned
getBudgetAnalysis(ledger, userId, list) ==
    LET activeBudgets == FilterActive(list)
        perfs == [k \in 1..Len(activeBudgets) |->
                    Performance(ledger, userId, activeBudgets[k])]
        totalBudgetAmount == SumAmount(activeBudgets)
        totalSpent == SumSpent(perfs)
    IN [totalBudgets |-> Len(list),
        activeBudgets |-> Len(activeBudgets),
        totalBudgetAmount |-> totalBudgetAmount,
        totalSpent |-> totalSpent,
        overBudgetCount |-> CountOver(perfs),
        savings |-> Savings(totalBudgetAmount, totalSpent),
        budgetPerformance |-> perfs]

\* The alertLevel of a budget that passed the threshold test.
AlertLevel(percentageUsed) ==
    IF AtLeast(percentageUsed, 100) THEN "exceeded"
    ELSE IF AtLeast(percentageUsed, 90) THEN "danger"
    ELSE "warning"

\* if (percentageUsed >= budget.alertThreshold)
Alerting(percentageUsed, alertThreshold) == AtLeast(percentageUsed, alertThreshold)

\* The alert's message: its template and the number it prints
\* (Math.round(percentageUsed), or spent - budget.amount in cents).
Message(level, percentageUsed, spent, amount) ==
    CASE level = "exceeded" -> [template |-> "exceeded by", value |-> spent - amount]
      [] level = "danger" ->
            [template |-> "close to exceeding",
             value |-> MathRound(percentageUsed.num, percentageUsed.den)]
      [] OTHER ->
            [template |-> "used",
             value |-> MathRound(percentageUsed.num, percentageUsed.den)]

\* BudgetService.getBudgetAlerts, on the list getUserBudgets returned
RECURSIVE Alerts(_, _, _)
Alerts(ledger, userId, activeBudgets) ==
    IF activeBudgets = <<>> THEN <<>>
    ELSE LET budget == Head(activeBudgets)
             spent == calculateBudgetSpent(ledger, userId, budget)
             percentageUsed == Percentage(spent, budget.amount)
             level == AlertLevel(percentageUsed)
         IN (IF Alerting(percentageUsed, budget.alertThreshold)
             THEN <<[budgetId |-> budget.id, budgetName |-> budget.name,
                     currentSpent |-> spent, budgetAmount |-> budget.amount,
                     percentageUsed |-> Round2(percentageUsed),
                     alertLevel |-> level,
                     message |-> Message(level, percentageUsed, spent, budget.amount)]>>
             ELSE <<>>)
            \o Alerts(ledger, userId, Tail(activeBudgets))

getBudgetAlerts(ledger, userId, list) == Alerts(ledger, userId, FilterActive(list))

\* GET /budgets: BudgetController.getBudgets
GetBudgets(userId) ==
    /\ request' = [op |-> "getBudgets", userId |-> userId]
    /\ \E list \in getUserBudgets(budgets, userId) :
          response' = JsonData(200, [kind |-> "budgets", data |-> list])
    /\ UNCHANGED <<tieOrder, inFlight, budgets, nextId, expenses, now>>

\* GET /budgets/analysis: BudgetController.getBudgetAnalysis
GetBudgetAnalysis(userId) ==
    /\ request' = [op |-> "getBudgetAnalysis", userId |-> userId]
    /\ \E list \in getUserBudgets(budgets, userId) :
          response' = JsonData(200, [kind |-> "analysis",
                                     data |-> getBudgetAnalysis(expenses, userId, list)])
    /\ UNCHANGED <<tieOrder, inFlight, budgets, nextId, expenses, now>>

\* GET /budgets/alerts: BudgetController.getBudgetAlerts
GetBudgetAlerts(userId) ==
    /\ request' = [op |-> "getBudgetAlerts", userId |-> userId]
    /\ \E list \in getUserBudgets(budgets, userId) :
          response' = JsonData(200, [kind |-> "alerts",
                                     data |-> getBudgetAlerts(expenses, userId, list)])
    /\ UNCHANGED <<tieOrder, inFlight, budgets, nextId, expenses, now>>

\* --------------------------------------------------------- a failing store
\* The message of the error a statement on the budgets table is rejected
\* with, and the one of a rejected query on the expenses table.
StoreError == "Database connection failed"
LedgerError == "SQLITE_ERROR: expenses"

\* A promise of the service that rejects with an error of that message.
Rejected(message) == [kind |-> "rejected", error |-> message]

\* The handlers' try { ... res.status(ok).json({ success: true, data }) }
\* catch (error) { res.status(err).json({ success: false, error }) }
Respond(okCode, errCode, result) ==
    IF result.kind = "rejected" THEN JsonError(errCode, result.error)
    ELSE JsonData(okCode, result)

\* The analysis of a failing ledger with every spent it could not read
\* taken as 0.
analysisLedgerDownAsZero(userId, list) ==
    [kind |-> "analysis", data |-> getBudgetAnalysis(<<>>, userId, list)]

\* BudgetService.getBudgetAnalysis while the expenses query rejects: the
\* await of calculateBudgetSpent throws at the first active budget, and
\* nothing catches it; with no active budget the query is never sent.
analysisLedgerDown(userId, list) ==
    IF FilterActive(list) = <<>>
    THEN [kind |-> "analysis", data |-> getBudgetAnalysis(<<>>, userId, list)]
    ELSE Rejected(LedgerError)

\* BudgetService.getBudgetAlerts while the expenses query rejects.
alertsLedgerDown(userId, list) ==
    IF FilterActive(list) = <<>>
    THEN [kind |-> "alerts", data |-> getBudgetAlerts(<<>>, userId, list)]
    ELSE Rejected(LedgerError)

\* GET /budgets/analysis while the expenses query rejects
GetBudgetAnalysisLedgerDown(userId) ==
    /\ request' = [op |-> "getBudgetAnalysis", userId |-> userId]
    /\ \E list \in getUserBudgets(budgets, userId) :
          response' = Respond(200, 500, analysisLedgerDown(userId, list))
    /\ UNCHANGED <<tieOrder, inFlight, budgets, nextId, expenses, now>>

\* GET /budgets/alerts while the expenses query rejects
GetBudgetAlertsLedgerDown(userId) ==
    /\ request' = [op |-> "getBudgetAlerts", userId |-> userId]
    /\ \E list \in getUserBudgets(budgets, userId) :
          response' = Respond(200, 500, alertsLedgerDown(userId, list))
    /\ UNCHANGED <<tieOrder, inFlight, budgets, nextId, expenses, now>>

\* POST /budgets while the INSERT rejects: no row, no id drawn
CreateBudgetStoreDown(userId, budgetData) ==
    /\ request' = [op |-> "createBudget", userId |-> userId, body |-> budgetData]
    /\ response' = Respond(201, 400, Rejected(StoreError))
    /\ UNCHANGED <<tieOrder, inFlight, budgets, nextId, expenses, now>>

\* POST /budgets while the SELECT that reads the inserted row back rejects:
\* the INSERT has run, in no transaction, and its row stays
CreateBudgetReadBackDown(userId, budgetData) ==
    /\ nextId <= MaxBudgets
    /\ budgets' = (nextId :> InsertedRow(nextId, userId, budgetData)) @@ budgets
    /\ nextId' = nextId + 1
    /\ request' = [op |-> "createBudget", userId |-> userId, body |-> budgetData]
    /\ response' = Respond(201, 400, Rejected(StoreError))
    /\ UNCHANGED <<tieOrder, inFlight, expenses, now>>

\* PUT /budgets/:budgetId while the UPDATE rejects (an update with no valid
\* field throws before any statement is sent)
UpdateBudgetStoreDown(budgetId, userId, updates) ==
    /\ request' = [op |-> "updateBudget", userId |-> userId,
                   budgetId |-> budgetId, body |-> updates]
    /\ response' = Respond(200, 400,
                      IF SetClause(updates) = {}
                      THEN Rejected("No valid fields to update")
                      ELSE Rejected(StoreError))
    /\ UNCHANGED <<tieOrder, inFlight, budgets, nextId, expenses, now>>

\* DELETE /budgets/:budgetId while the DELETE rejects
DeleteBudgetStoreDown(budgetId, userId) ==
    /\ request' = [op |-> "deleteBudget", userId |-> userId, budgetId |-> budgetId]
    /\ response' = Respond(200, 400, Rejected(StoreError))
    /\ UNCHANGED <<tieOrder, inFlight, budgets, nextId, expenses, now>>

\* GET /budgets, /budgets/analysis, /budgets/alerts while the SELECT on the
\* budgets table rejects
GetBudgetsStoreDown(userId) ==
    /\ request' = [op |-> "getBudgets", userId |-> userId]
    /\ response' = Respond(200, 500, Rejected(StoreError))
    /\ UNCHANGED <<tieOrder, inFlight, budgets, nextId, expenses, now>>

GetBudgetAnalysisStoreDown(userId) ==
    /\ request' = [op |-> "getBudgetAnalysis", userId |-> userId]
    /\ response' = Respond(200, 500, Rejected(StoreError))
    /\ UNCHANGED <<tieOrder, inFlight, budgets, nextId, expenses, now>>

GetBudgetAlertsStoreDown(userId) ==
    /\ request' = [op |-> "getBudgetAlerts", userId |-> userId]
    /\ response' = Respond(200, 500, Rejected(StoreError))
    /\ UNCHANGED <<tieOrder, inFlight, budgets, nextId, expenses, now>>

BudgetIds == 1..MaxBudgets

Next ==
    \/ \E u \in Users, d \in BudgetInputs : CreateBudget(u, d)
    \/ \E id \in BudgetIds, u \in Users, upd \in UpdateInputs : UpdateBudget(id, u, upd)
    \/ \E id \in BudgetIds, u \in Users : DeleteBudget(id, u)
    \/ \E u \in Users : GetBudgets(u)
    \/ \E u \in Users : GetBudgetAnalysis(u)
    \/ \E u \in Users : GetBudgetAlerts(u)
    \/ \E e \in FewExpenseInputs : AddExpense(e)
    \/ Tick

Spec == Init /\ [][Next]_vars

\* ------------------------------------------- the analysis over given stores
\* The stores that n createBudget calls leave behind, n <= MaxBudgets.
RECURSIVE CreatedStores(_)
CreatedStores(n) ==
    IF n = 0 THEN {<<>>}
    ELSE CreatedStores(n - 1) \cup
         {(n :> InsertedRow(n, u, d)) @@ t :
            u \in Users, d \in AnalysisBudgetInputs,
            t \in {x \in CreatedStores(n - 1) : DOMAIN x = 1..(n - 1)}}

InitAnalysis ==
    /\ now = 0
    /\ tieOrder \in TieOrders
    /\ inFlight = NoCall
    /\ budgets \in CreatedStores(MaxBudgets)
    /\ nextId = Cardinality(DOMAIN budgets) + 1
    /\ expenses = <<>>
    /\ request = NoRequest
    /\ response = NoResponse

NextAnalysis ==
    \/ \E u \in Users : GetBudgets(u)
    \/ \E u \in Users : GetBudgetAnalysis(u)
    \/ \E u \in Users : GetBudgetAlerts(u)
    \/ \E e \in ExpenseInputs : AddExpense(e)

SpecAnalysis == InitAnalysis /\ [][NextAnalysis]_vars

\* --------------------------------------------------- the reads on their own
\* The ledgers that up to n expenses leave behind.
RECURSIVE Ledgers(_)
Ledgers(n) ==
    IF n = 0 THEN {<<>>}
    ELSE Ledgers(n - 1) \cup
         {Append(l, e) : e \in ExpenseInputs,
                         l \in {x \in Ledgers(n - 1) : Len(x) = n - 1}}

InitReads ==
    /\ now = 0
    /\ tieOrder \in TieOrders
    /\ inFlight = NoCall
    /\ budgets \in CreatedStores(MaxBudgets)
    /\ nextId = Cardinality(DOMAIN budgets) + 1
    /\ expenses \in Ledgers(MaxExpenses)
    /\ request = NoRequest
    /\ response = NoResponse

\* No write: the analysis and the alerts, with the ledger up or failing.
NextReads ==
    \/ \E u \in Users : GetBudgetAnalysis(u)
    \/ \E u \in Users : GetBudgetAlerts(u)
    \/ \E u \in Users : GetBudgetAnalysisLedgerDown(u)
    \/ \E u \in Users : GetBudgetAlertsLedgerDown(u)

SpecReads == InitReads /\ [][NextReads]_vars

\* ------------------------------------------------- the writes on their own
\* No list is read in these runs: one order of ties stands for both.
InitCrud == Init /\ tieOrder = "rowid"

NextCrud ==
    \/ \E u \in Users, d \in BudgetInputs : CreateBudget(u, d)
    \/ \E id \in BudgetIds, u \in Users, upd \in UpdateInputs : UpdateBudget(id, u, upd)
    \/ \E id \in BudgetIds, u \in Users : DeleteBudget(id, u)

SpecCrud == InitCrud /\ [][NextCrud]_vars

\* ------------------------------------------- every endpoint, the store failing
NextFaults ==
    \/ \E u \in Users, d \in BudgetInputs : CreateBudget(u, d)
    \/ \E id \in BudgetIds, u \in Users, upd \in UpdateInputs : UpdateBudget(id, u, upd)
    \/ \E id \in BudgetIds, u \in Users : DeleteBudget(id, u)
    \/ \E u \in Users : GetBudgets(u)
    \/ \E u \in Users : GetBudgetAnalysis(u)
    \/ \E u \in Users : GetBudgetAlerts(u)
    \/ \E u \in Users, d \in BudgetInputs : CreateBudgetStoreDown(u, d)
    \/ \E u \in Users, d \in BudgetInputs : CreateBudgetReadBackDown(u, d)
    \/ \E id \in BudgetIds, u \in Users, upd \in UpdateInputs :
          UpdateBudgetStoreDown(id, u, upd)
    \/ \E id \in BudgetIds, u \in Users : DeleteBudgetStoreDown(id, u)
    \/ \E u \in Users : GetBudgetsStoreDown(u)
    \/ \E u \in Users : GetBudgetAnalysisStoreDown(u)
    \/ \E u \in Users : GetBudgetAlertsStoreDown(u)
    \/ \E u \in Users : GetBudgetAnalysisLedgerDown(u)
    \/ \E u \in Users : GetBudgetAlertsLedgerDown(u)

SpecFaults == Init /\ [][NextFaults]_vars

\* ------------------------------------ an update taken a statement at a time
\* Updates of two callers that write one field with two values.
RaceUpdateInputs == {[amount |-> 0], [amount |-> 45000]}

\* PUT /budgets/:budgetId up to its first await: the UPDATE has run
UpdateBudgetWrite(budgetId, userId, updates) ==
    /\ inFlight = NoCall
    /\ SetClause(updates) # {}
    /\ budgets' = UpdatedTable(budgets, budgetId, userId, updates)
    /\ inFlight' = [op |-> "updateBudget", userId |-> userId,
                    budgetId |-> budgetId, body |-> updates]
    /\ UNCHANGED <<tieOrder, nextId, expenses, now, request, response>>

\* ... and from there: return this.getBudgetById(budgetId), and the answer
UpdateBudgetReadBack ==
    /\ inFlight.op = "updateBudget"
    /\ request' = inFlight
    /\ response' = JsonData(200, getBudgetById(budgets, inFlight.budgetId))
    /\ inFlight' = NoCall
    /\ UNCHANGED <<tieOrder, budgets, nextId, expenses, now>>

\* One caller updates a budget of its own while the calls of others run
\* between its two statements.
NextUpdateRace ==
    \/ \E u \in Users, d \in BudgetInputs : CreateBudget(u, d)
    \/ \E id \in BudgetIds, u \in Users, upd \in RaceUpdateInputs :
          UpdateBudget(id, u, upd)
    \/ \E id \in BudgetIds, u \in Users : DeleteBudget(id, u)
    \/ \E id \in BudgetIds, u \in Users, upd \in RaceUpdateInputs :
          Matches(budgets, id, u) /\ UpdateBudgetWrite(id, u, upd)
    \/ UpdateBudgetReadBack

SpecUpdateRace == InitCrud /\ [][NextUpdateRace]_vars

\* ---------------------------------- an analysis taken a statement at a time
\* The loop body of getBudgetAnalysis reading the budget's row as the
\* store holds it now, the object of the list only when the row is gone.
AnalysisStepOnStoredRow(ledger, userId, budget, analysis) ==
    LET row == IF budget.id \in DOMAIN budgets THEN budgets[budget.id] ELSE budget
        performance == Performance(ledger, userId, row)
    IN [analysis EXCEPT
          !.budgetPerformance = Append(@, performance),
          !.totalSpent = @ + performance.spent,
          !.overBudgetCount = @ + (IF performance.status = "over" THEN 1 ELSE 0)]

\* The loop body of getBudgetAnalysis for one budget of activeBudgets:
\* one calculateBudgetSpent, one record pushed, the running totals moved on.
AnalysisStep(ledger, userId, budget, analysis) ==
    LET performance == Performance(ledger, userId, budget)
    IN [analysis EXCEPT
          !.budgetPerformance = Append(@, performance),
          !.totalSpent = @ + performance.spent,
          !.overBudgetCount = @ + (IF performance.status = "over" THEN 1 ELSE 0)]

\* The budgets created while an analysis runs: two active ones that count
\* the same expenses, and an inactive one.
RaceBudgetInputs == {ValidBudgetData, AllCategoriesBudgetData, InactiveBudgetData}

\* GET /budgets/analysis up to its first await: the list is read and the
\* analysis object is built from it
GetBudgetAnalysisStart(userId) ==
    /\ inFlight = NoCall
    /\ \E list \in getUserBudgets(budgets, userId) :
          LET activeBudgets == FilterActive(list)
          IN inFlight' = [op |-> "getBudgetAnalysis", userId |-> userId,
                          activeBudgets |-> activeBudgets,
                          analysis |-> [totalBudgets |-> Len(list),
                                        activeBudgets |-> Len(activeBudgets),
                                        totalBudgetAmount |-> SumAmount(activeBudgets),
                                        totalSpent |-> 0,
                                        overBudgetCount |-> 0,
                                        savings |-> 0,
                                        budgetPerformance |-> <<>>]]
    /\ UNCHANGED <<tieOrder, budgets, nextId, expenses, now, request, response>>

\* ... one turn of its loop, on the ledger as it is at this await
GetBudgetAnalysisLoop ==
    /\ inFlight.op = "getBudgetAnalysis"
    /\ Len(inFlight.analysis.budgetPerformance) < Len(inFlight.activeBudgets)
    /\ LET budget == inFlight.activeBudgets[Len(inFlight.analysis.budgetPerformance) + 1]
       IN inFlight' = [inFlight EXCEPT
                         !.analysis = AnalysisStep(expenses, inFlight.userId, budget, @)]
    /\ UNCHANGED <<tieOrder, budgets, nextId, expenses, now, request, response>>

\* ... and after the loop: savings, the return and the answer
GetBudgetAnalysisReturn ==
    /\ inFlight.op = "getBudgetAnalysis"
    /\ Len(inFlight.analysis.budgetPerformance) = Len(inFlight.activeBudgets)
    /\ request' = [op |-> "getBudgetAnalysis", userId |-> inFlight.userId]
    /\ LET analysis == inFlight.analysis
       IN response' = JsonData(200,
             [kind |-> "analysis",
              data |-> [analysis EXCEPT
                          !.savings = Savings(analysis.totalBudgetAmount,
                                              analysis.totalSpent)]])
    /\ inFlight' = NoCall
    /\ UNCHANGED <<tieOrder, budgets, nextId, expenses, now>>

\* One analysis runs while budgets and expenses are written between its
\* statements.
NextAnalysisRace ==
    \/ \E u \in Users, d \in RaceBudgetInputs : CreateBudget(u, d)
    \/ \E id \in BudgetIds, u \in Users, upd \in RaceUpdateInputs :
          UpdateBudget(id, u, upd)
    \/ \E id \in BudgetIds, u \in Users : DeleteBudget(id, u)
    \/ \E e \in FewExpenseInputs : AddExpense(e)
    \/ \E u \in Users : GetBudgetAnalysisStart(u)
    \/ GetBudgetAnalysisLoop
    \/ GetBudgetAnalysisReturn

SpecAnalysisRace == InitCrud /\ [][NextAnalysisRace]_vars

\* -------------------------------------- the alerts beside the analysis
\* A budget whose alertThreshold lies above 100.
HighThresholdBudgetData == [ValidBudgetData EXCEPT !.alertThreshold = 150]

AgreementBudgetInputs == {ValidBudgetData, HighThresholdBudgetData}

\* Budgets are created and spent against, and both reads are answered.
NextAgreement ==
    \/ \E u \in Users, d \in AgreementBudgetInputs : CreateBudget(u, d)
    \/ \E e \in ExpenseInputs : AddExpense(e)
    \/ \E u \in Users : GetBudgetAnalysis(u)
    \/ \E u \in Users : GetBudgetAlerts(u)

SpecAgreement == Init /\ [][NextAgreement]_vars

\* ------------------------------------------------------------------ claims
\* The invariants of a budget: amount > 0, alertThreshold in [1,100],
\* startDate <= endDate.
SatisfiesInvariants(b) ==
    /\ b.amount > 0
    /\ b.alertThreshold >= 1 /\ b.alertThreshold <= 100
    /\ b.startDate <= b.endDate

\* C1: an updateBudget(id, U, updates) for which no budget matches (id, U),
\* the budget being another user's or not there at all, fails (no success
\* result is returned; with a field to update the failure is the 404 of a
\* NotFoundError) and leaves every stored budget unchanged.
C1_UpdateOfUnmatchedBudgetFails ==
    [][\A id \in BudgetIds, u \in Users, upd \in UpdateInputs :
         (UpdateBudget(id, u, upd) /\ ~Matches(budgets, id, u))
            => /\ ~response'.success
               /\ budgets' = budgets
               /\ SetClause(upd) # {} => response'.status = 404]_vars

\* C2: what user U gets from updateBudget(id, U, updates) on a budget that
\* another user owns is what U gets in the world where no budget has that
\* id, and it holds no field of a budget U does not own.
C2_UpdateHidesForeignBudgets ==
    [][\A id \in BudgetIds, u \in Users, upd \in UpdateInputs :
         (UpdateBudget(id, u, upd) /\ id \in DOMAIN budgets /\ budgets[id].userId # u)
            => LET absent == [i \in DOMAIN budgets \ {id} |-> budgets[i]]
                   there == updateBudget(absent, id, u, upd).response
               IN /\ response'.kind = there.kind
                  /\ response'.status = there.status
                  /\ response'.kind = "budget" => response'.data.userId = u]_vars

\* Data that createBudget is to reject.
InvalidCreateData(d) ==
    \/ d.amount <= 0
    \/ d.alertThreshold <= 0 \/ d.alertThreshold > 100
    \/ d.startDate > d.endDate

\* C3: createBudget(userId, data) with amount <= 0, alertThreshold outside
\* (0,100] or startDate after endDate is rejected with an error and inserts
\* no row.
C3_InvalidCreateRejected ==
    [][\A u \in Users, d \in BudgetInputs :
         (CreateBudget(u, d) /\ InvalidCreateData(d))
            => (~response'.success /\ budgets' = budgets)]_vars

\* C4: every stored budget has amount > 0, alertThreshold in [1,100] and
\* startDate <= endDate, whatever createBudget, updateBudget and
\* deleteBudget calls came before.
C4_StoredBudgetsSatisfyInvariants ==
    \A id \in DOMAIN budgets : SatisfiesInvariants(budgets[id])

\* A reported percentageUsed (hundredths of a percent) against k percent.
ReportedAtLeast(r, k) ==
    r.kind = "Infinity" \/ (r.kind = "finite" /\ r.hundredths >= 100 * k)

ReportedBelow(r, k) ==
    r.kind = "-Infinity" \/ (r.kind = "finite" /\ r.hundredths < 100 * k)

\* The performance records of the analysis answered last.
ReturnedPerformances ==
    IF response.kind = "analysis"
    THEN {response.data.budgetPerformance[k] :
            k \in 1..Len(response.data.budgetPerformance)}
    ELSE {}

\* The alerts answered last.
ReturnedAlerts ==
    IF response.kind = "alerts"
    THEN {response.data[k] : k \in 1..Len(response.data)}
    ELSE {}

\* C5: the status of a performance record agrees with the percentageUsed the
\* record reports: over iff percentageUsed >= 100, warning iff
\* alertThreshold <= percentageUsed < 100, under iff percentageUsed <
\* alertThreshold (budgets with amount > 0 and alertThreshold in [1,100]).
C5_StatusAgreesWithReportedPercentage ==
    \A rec \in ReturnedPerformances :
        LET b == budgets[rec.budgetId]
            r == rec.percentageUsed
        IN SatisfiesInvariants(b) =>
            /\ rec.status = "over" <=> ReportedAtLeast(r, 100)
            /\ rec.status = "warning" <=>
                  (ReportedAtLeast(r, b.alertThreshold) /\ ReportedBelow(r, 100))
            /\ rec.status = "under" <=> ReportedBelow(r, b.alertThreshold)

\* C6: getBudgetAlerts(userId) returns an alert for an active budget iff the
\* budget's percentageUsed, rounded to 2 decimals as reported, is >= its
\* alertThreshold.
C6_AlertIffReportedPercentageAtThreshold ==
    [][\A u \in Users :
         GetBudgetAlerts(u) =>
            \A id \in DOMAIN budgets :
                LET b == budgets[id]
                    spent == calculateBudgetSpent(expenses, u, b)
                    r == Round2(Percentage(spent, b.amount))
                IN (b.userId = u /\ IsActive(b) /\ SatisfiesInvariants(b)) =>
                      ((\E k \in 1..Len(response'.data) : response'.data[k].budgetId = id)
                         <=> ReportedAtLeast(r, b.alertThreshold))]_vars

\* C7: an alert is exceeded iff its percentageUsed >= 100, danger iff
\* 90 <= percentageUsed < 100, warning iff alertThreshold <= percentageUsed
\* < 90.
C7_AlertLevelAgreesWithReportedPercentage ==
    \A a \in ReturnedAlerts :
        LET b == budgets[a.budgetId]
            r == a.percentageUsed
        IN SatisfiesInvariants(b) =>
            /\ a.alertLevel = "exceeded" <=> ReportedAtLeast(r, 100)
            /\ a.alertLevel = "danger" <=>
                  (ReportedAtLeast(r, 90) /\ ReportedBelow(r, 100))
            /\ a.alertLevel = "warning" <=>
                  (ReportedAtLeast(r, b.alertThreshold) /\ ReportedBelow(r, 90))

Abs(x) == IF x < 0 THEN -x ELSE x

\* h hundredths of a percent is spent / amount * 100 to the nearest
\* hundredth: it is off by at most half a hundredth.
NearestHundredth(h, spent, amount) ==
    IF amount > 0
    THEN 2 * Abs(h * amount - spent * 10000) <= amount
    ELSE 2 * Abs(h * (-amount) + spent * 10000) <= -amount

\* C8: the percentageUsed of every performance record is
\* spent / budgetAmount * 100 rounded to 2 decimals (an amount of zero has
\* no quotient, and no finite percentage is reported for it).
C8_PercentageUsedIsRoundedQuotient ==
    \A rec \in ReturnedPerformances :
        IF rec.budgetAmount = 0
        THEN rec.percentageUsed.kind # "finite"
        ELSE /\ rec.percentageUsed.kind = "finite"
             /\ NearestHundredth(rec.percentageUsed.hundredths, rec.spent,
                                 rec.budgetAmount)

\* C8's case: a record whose quotient had to be rounded (239.99 of 300.00
\* is 79.99666..., reported as 80.00).
C8_Witness ==
    \E rec \in ReturnedPerformances :
        /\ rec.budgetAmount > 0 /\ rec.spent > 0
        /\ rec.percentageUsed.hundredths * rec.budgetAmount > rec.spent * 10000

\* C9: the remaining of every performance record is budgetAmount - spent of
\* that record and of the stored budget, negative when the budget is
\* overspent.
C9_RemainingIsAmountMinusSpent ==
    \A rec \in ReturnedPerformances :
        /\ rec.remaining = rec.budgetAmount - rec.spent
        /\ rec.budgetAmount = budgets[rec.budgetId].amount
        /\ rec.spent > rec.budgetAmount => rec.remaining < 0

\* C9's case: an overspent budget in the analysis.
C9_Witness ==
    \E rec \in ReturnedPerformances :
        rec.budgetAmount > 0 /\ rec.spent > rec.budgetAmount

\* The sum of the amounts of the budgets of S.
RECURSIVE AmountOver(_)
AmountOver(S) ==
    IF S = {} THEN 0
    ELSE LET id == CHOOSE x \in S : TRUE
         IN budgets[id].amount + AmountOver(S \ {id})

\* The sum of spent over the first n performance records.
RECURSIVE SpentUpTo(_, _)
SpentUpTo(perfs, n) ==
    IF n = 0 THEN 0 ELSE perfs[n].spent + SpentUpTo(perfs, n - 1)

\* C10: in every analysis, totalBudgetAmount is the sum of amount over the
\* user's active budgets, totalSpent the sum of spent over the performance
\* records, and savings their difference.
C10_PortfolioTotals ==
    response.kind = "analysis" =>
        LET a == response.data
            active == {id \in DOMAIN budgets :
                          budgets[id].userId = request.userId /\ IsActive(budgets[id])}
        IN /\ a.totalBudgetAmount = AmountOver(active)
           /\ a.totalSpent = SpentUpTo(a.budgetPerformance, Len(a.budgetPerformance))
           /\ a.savings = a.totalBudgetAmount - a.totalSpent

\* C10's case: an overspent portfolio beside an inactive budget.
C10_Witness ==
    /\ response.kind = "analysis"
    /\ response.data.totalBudgets > response.data.activeBudgets
    /\ response.data.activeBudgets >= 1
    /\ response.data.totalSpent > response.data.totalBudgetAmount
    /\ response.data.savings < 0

\* C11: overBudgetCount is the number of performance records whose status is
\* over, and 0 <= overBudgetCount <= activeBudgets <= totalBudgets.
C11_OverBudgetCountCountsOverRecords ==
    response.kind = "analysis" =>
        LET a == response.data
            over == {k \in 1..Len(a.budgetPerformance) :
                        a.budgetPerformance[k].status = "over"}
        IN /\ a.overBudgetCount = Cardinality(over)
           /\ 0 <= a.overBudgetCount
           /\ a.overBudgetCount <= a.activeBudgets
           /\ a.activeBudgets <= a.totalBudgets

\* C11's case: an analysis with a budget that is over and one that is not.
C11_Witness ==
    /\ response.kind = "analysis"
    /\ response.data.overBudgetCount >= 1
    /\ response.data.overBudgetCount < response.data.activeBudgets

\* The budgets table without its inactive rows.
ActiveOnly(table) == [i \in {j \in DOMAIN table : table[j].isActive = 1} |-> table[i]]

\* The list getUserBudgets gives for the user of the request answered last.
Listed(table) == CHOOSE l \in getUserBudgets(table, request.userId) : TRUE

\* C12: budgetPerformance holds one record per active budget of the user, in
\* the order getUserBudgets lists them, and none for an inactive budget; an
\* inactive budget counts in totalBudgets only: totalBudgetAmount,
\* totalSpent, overBudgetCount and the alerts are those of the store without
\* the inactive budgets.
C12_OnlyActiveBudgetsAreAnalysed ==
    /\ response.kind = "analysis" =>
          LET a == response.data
              listed == Listed(budgets)
              active == SelectSeq(listed, LAMBDA b : b.isActive = 1)
              without == getBudgetAnalysis(expenses, request.userId,
                                           Listed(ActiveOnly(budgets)))
          IN /\ a.totalBudgets = Len(listed)
             /\ a.activeBudgets = Len(active)
             /\ Len(a.budgetPerformance) = Len(active)
             /\ \A k \in 1..Len(active) : a.budgetPerformance[k].budgetId = active[k].id
             /\ a.totalBudgetAmount = without.totalBudgetAmount
             /\ a.totalSpent = without.totalSpent
             /\ a.overBudgetCount = without.overBudgetCount
    /\ response.kind = "alerts" =>
          /\ \A k \in 1..Len(response.data) :
                budgets[response.data[k].budgetId].isActive = 1
          /\ response.data = getBudgetAlerts(expenses, request.userId,
                                             Listed(ActiveOnly(budgets)))

\* C12's case: an analysis for a user with an active budget and an inactive
\* one whose range and category an expense of the user matches.
C12_Witness ==
    /\ response.kind = "analysis"
    /\ response.data.activeBudgets >= 1
    /\ \E id \in DOMAIN budgets, k \in 1..Len(expenses) :
          /\ budgets[id].userId = request.userId
          /\ budgets[id].isActive = 0
          /\ expenses[k].userId = request.userId
          /\ SumExpenses(expenses, request.userId, budgets[id]) > 0

DeletedSuccessfully(r) == r.status = 200 /\ r.success

\* C14: deleteBudget(id, userId) with no budget matching (id, userId)
\* returns success and changes nothing; after any deleteBudget(id, userId)
\* a second one is of that kind, so deleting twice leaves what deleting
\* once leaves.
C14_DeleteIsIdempotent ==
    [][\A id \in BudgetIds, u \in Users :
         DeleteBudget(id, u) =>
            /\ DeletedSuccessfully(response')
            /\ ~(id \in DOMAIN budgets /\ budgets[id].userId = u)
                  => budgets' = budgets
            /\ ~(id \in DOMAIN budgets' /\ budgets'[id].userId = u)]_vars

\* C14's case: a deleteBudget by a user who does not own the budget was
\* answered with success, and the budget is still there.
C14_Witness ==
    /\ request.op = "deleteBudget"
    /\ DeletedSuccessfully(response)
    /\ request.budgetId \in DOMAIN budgets
    /\ budgets[request.budgetId].userId # request.userId

\* C15: deleteBudget(id, userId) removes nothing but the budget matching
\* both id and userId: every other budget, of this user or another, is
\* there afterwards and unchanged, and no budget appears.
C15_DeleteTouchesOneBudgetAtMost ==
    [][\A id \in BudgetIds, u \in Users :
         DeleteBudget(id, u) =>
            /\ DOMAIN budgets' \subseteq DOMAIN budgets
            /\ DOMAIN budgets \ DOMAIN budgets' \subseteq {id}
            /\ \A i \in DOMAIN budgets :
                  (i # id \/ budgets[i].userId # u)
                     => (i \in DOMAIN budgets' /\ budgets'[i] = budgets[i])]_vars

\* C15's case: a deleteBudget removed its budget and another budget of the
\* same user is still there.
C15_Witness ==
    /\ request.op = "deleteBudget"
    /\ request.budgetId \notin DOMAIN budgets
    /\ request.budgetId < nextId
    /\ \E i \in DOMAIN budgets : budgets[i].userId = request.userId

\* The expenses a budget is charged with: those of the budget's user,
\* bought on a day from startDate to endDate, both included, and of the
\* budget's category when it has one.
MatchingExpenses(b) ==
    {k \in 1..Len(expenses) :
        /\ expenses[k].userId = b.userId
        /\ b.startDate <= expenses[k].purchase_date.day
        /\ expenses[k].purchase_date.day <= b.endDate
        /\ b.category \notin {Null, ""} => expenses[k].category = b.category}

\* The sum of the amounts of the expenses numbered in S.
RECURSIVE TotalOf(_)
TotalOf(S) ==
    IF S = {} THEN 0
    ELSE LET k == CHOOSE x \in S : TRUE
         IN expenses[k].amount + TotalOf(S \ {k})

HasActiveBudget(u) ==
    \E id \in DOMAIN budgets : budgets[id].userId = u /\ budgets[id].isActive = 1

\* C17: when the expenses query fails for an active budget, getBudgetAlerts
\* and getBudgetAnalysis fail with an error: the answer is no success, and
\* carries no list or record at all (none empty, partial, or with a spent
\* of 0 filled in).
C17_LedgerFailureFailsTheRead ==
    [][\A u \in Users :
         ((GetBudgetAnalysisLedgerDown(u) \/ GetBudgetAlertsLedgerDown(u))
             /\ HasActiveBudget(u))
            => /\ ~response'.success
               /\ response'.kind = "error"
               /\ response'.status >= 500]_vars

\* C17's case: getBudgetAlerts failed on the expenses query although an
\* expense of the user has an active budget at its threshold.
C17_Witness ==
    /\ request.op = "getBudgetAlerts"
    /\ response.kind = "error"
    /\ response.error = LedgerError
    /\ \E id \in DOMAIN budgets :
          /\ budgets[id].userId = request.userId
          /\ budgets[id].isActive = 1
          /\ budgets[id].amount > 0
          /\ SumExpenses(expenses, request.userId, budgets[id]) >= budgets[id].amount

\* C18: an analysis or alert evaluation that meets an active budget of
\* amount 0 fails with a DomainError (no success, a 5xx answer) instead of
\* returning a record whose percentageUsed is Infinity or NaN.
C18_ZeroAmountIsDomainError ==
    (/\ request.op \in {"getBudgetAnalysis", "getBudgetAlerts"}
     /\ \E id \in DOMAIN budgets :
           /\ budgets[id].userId = request.userId
           /\ budgets[id].isActive = 1
           /\ budgets[id].amount = 0)
       => /\ ~response.success
          /\ response.status >= 500
          /\ \A rec \in ReturnedPerformances : rec.percentageUsed.kind = "finite"
          /\ \A a \in ReturnedAlerts : a.percentageUsed.kind = "finite"

\* C19: whichever endpoint meets a failure of the store or of the expenses
\* query answers with a server error (5xx) that carries the error, never
\* with a 4xx and never with success.
C19_StoreFailureIsServerError ==
    (response.kind = "error" /\ response.error \in {StoreError, LedgerError})
       => (~response.success /\ response.status >= 500 /\ response.status <= 599)

\* JavaScript's a === b on two values of any type (1 is not true).
StrictEquals(a, b) == ToString(a) = ToString(b)

\* C20: createBudget(userId, data) with valid data adds exactly one budget
\* row and returns that persisted budget: its id is generated and differs
\* from every other budget's id, its owner is userId, and name, amount,
\* period, alertThreshold and the other supplied fields equal the supplied
\* values.
C20_CreateReturnsPersistedBudget ==
    [][\A u \in Users, d \in BudgetInputs :
         (CreateBudget(u, d) /\ ~InvalidCreateData(d))
            => /\ Cardinality(DOMAIN budgets') = Cardinality(DOMAIN budgets) + 1
               /\ \A i \in DOMAIN budgets :
                     i \in DOMAIN budgets' /\ budgets'[i] = budgets[i]
               /\ response'.success
               /\ response'.kind = "budget"
               /\ LET b == response'.data
                  IN /\ b.id \notin DOMAIN budgets
                     /\ b.id \in DOMAIN budgets' /\ budgets'[b.id] = b
                     /\ b.userId = u
                     /\ b.name = d.name
                     /\ b.amount = d.amount
                     /\ b.period = d.period
                     /\ b.alertThreshold = d.alertThreshold
                     /\ b.startDate = d.startDate
                     /\ b.endDate = d.endDate
                     /\ b.category = d.category
                     /\ StrictEquals(b.isActive, d.isActive)]_vars

\* C21: getUserBudgets(userId) returns every budget of userId and no budget
\* of anyone else, newest first: of two budgets of the user the one created
\* later (the one of the larger AUTOINCREMENT id) comes earlier in the list,
\* also when both were created within one second.
C21_BudgetsListedNewestFirst ==
    response.kind = "budgets" =>
        LET l == response.data
            mine == {id \in DOMAIN budgets : budgets[id].userId = request.userId}
        IN /\ {l[k].id : k \in 1..Len(l)} = mine
           /\ Len(l) = Cardinality(mine)
           /\ \A k \in 1..Len(l) : l[k] = budgets[l[k].id]
           /\ \A i, j \in 1..Len(l) : i < j => l[i].id > l[j].id

\* C22: a step that answers updateBudget(budgetId, userId, updates) with
\* success changes, on the budget it matches, nothing but the supplied fields among name, amount,
\* category, period, startDate, endDate, alertThreshold, isActive and the
\* modification timestamp: id, owner, creation timestamp and the fields not
\* supplied stay, and so does every other budget.
C22_UpdateChangesOnlySuppliedFields ==
    [][(request'.op = "updateBudget" /\ response'.success) =>
          LET id == request'.budgetId
              u == request'.userId
              upd == request'.body
          IN /\ DOMAIN budgets' = DOMAIN budgets
             /\ \A i \in DOMAIN budgets :
                   IF i = id /\ budgets[i].userId = u
                   THEN \A f \in DOMAIN budgets[i] :
                           (\/ f \in {"id", "userId", "createdAt"}
                            \/ f \notin DOMAIN upd \cup {"updatedAt"})
                              => budgets'[i][f] = budgets[i][f]
                   ELSE budgets'[i] = budgets[i]]_vars

\* C22's case: an update answered with the budget it changed a second or
\* more after its creation, beside another budget.
C22_Witness ==
    /\ request.op = "updateBudget"
    /\ response.kind = "budget"
    /\ response.data.updatedAt > response.data.createdAt
    /\ budgets[request.budgetId] = response.data
    /\ Cardinality(DOMAIN budgets) >= 2

\* C23: getUserBudgets, getBudgetAnalysis and getBudgetAlerts leave the
\* budgets table and the expenses as they are (a step that changes the
\* table answers a createBudget, updateBudget or deleteBudget), and no
\* operation of the budget service changes an expense (a step that changes
\* the expenses is a step of the expense routes).
C23_ReadsWriteNothingAndExpensesAreNotTouched ==
    [][/\ budgets' # budgets =>
             request'.op \in {"createBudget", "updateBudget", "deleteBudget"}
       /\ nextId' # nextId => request'.op = "createBudget"
       /\ expenses' # expenses =>
             /\ \E e \in ExpenseInputs : AddExpense(e)
             /\ \A k \in 1..Len(expenses) : expenses'[k] = expenses[k]]_vars

\* C23's case: a budget of a user was deleted while the ledger held an
\* expense of that user, and an analysis was answered after it.
C23_Witness ==
    /\ request.op = "getBudgetAnalysis"
    /\ \E id \in 1..(nextId - 1) : id \notin DOMAIN budgets
    /\ \E k \in 1..Len(expenses) : expenses[k].userId = request.userId
    /\ budgets # <<>>

\* The active budgets of user u in the table as it is now.
ActiveIdsOf(u) ==
    {id \in DOMAIN budgets : budgets[id].userId = u /\ budgets[id].isActive # 0}

\* C24: an analysis or an alert list is computed from the store as it is
\* when the call is made, every write completed before included: the
\* records are those of the budgets now active, with their amounts of now
\* and the expenses of now summed, and so is every alert.
C24_AnalysisIsComputedFromTheCurrentStore ==
    [][/\ (request'.op = "getBudgetAnalysis" /\ GetBudgetAnalysis(request'.userId)) =>
             LET a == response'.data
                 u == request'.userId
             IN /\ a.totalBudgets =
                      Cardinality({id \in DOMAIN budgets : budgets[id].userId = u})
                /\ a.activeBudgets = Cardinality(ActiveIdsOf(u))
                /\ {a.budgetPerformance[k].budgetId :
                       k \in 1..Len(a.budgetPerformance)} = ActiveIdsOf(u)
                /\ \A k \in 1..Len(a.budgetPerformance) :
                      LET rec == a.budgetPerformance[k]
                      IN /\ rec.budgetAmount = budgets[rec.budgetId].amount
                         /\ rec.name = budgets[rec.budgetId].name
                         /\ rec.spent = TotalOf(MatchingExpenses(budgets[rec.budgetId]))
       /\ (request'.op = "getBudgetAlerts" /\ GetBudgetAlerts(request'.userId)) =>
             \A k \in 1..Len(response'.data) :
                LET al == response'.data[k]
                IN /\ al.budgetId \in ActiveIdsOf(request'.userId)
                   /\ al.budgetAmount = budgets[al.budgetId].amount
                   /\ al.currentSpent = TotalOf(MatchingExpenses(budgets[al.budgetId]))]_vars

\* C24's case: an analysis that shows an amount an update wrote and an
\* expense written to the ledger.
C24_Witness ==
    /\ request.op = "getBudgetAnalysis"
    /\ \E rec \in ReturnedPerformances :
          /\ rec.budgetId \in DOMAIN budgets
          /\ budgets[rec.budgetId].updatedAt > budgets[rec.budgetId].createdAt
          /\ rec.budgetAmount = 0
          /\ budgets[rec.budgetId].amount = 0
          /\ rec.spent > 0

\* The store with nothing in it but what user u owns.
OwnBudgets(u) == [i \in {j \in DOMAIN budgets : budgets[j].userId = u} |-> budgets[i]]
OwnExpenses(u) == SelectSeq(expenses, LAMBDA e : e.userId = u)

\* C25: what getUserBudgets(U), getBudgetAnalysis(U) and getBudgetAlerts(U)
\* return is what they return on the store that holds U's budgets and
\* expenses and nothing else; so two stores that agree on U's budgets and
\* expenses give U the same results, whatever else they hold.
C25_ResultsDependOnOwnDataOnly ==
    [][/\ (request'.op = "getBudgets" /\ GetBudgets(request'.userId)) =>
             \E l \in getUserBudgets(OwnBudgets(request'.userId), request'.userId) :
                response'.data = l
       /\ (request'.op = "getBudgetAnalysis" /\ GetBudgetAnalysis(request'.userId)) =>
             \E l \in getUserBudgets(OwnBudgets(request'.userId), request'.userId) :
                response'.data =
                   getBudgetAnalysis(OwnExpenses(request'.userId), request'.userId, l)
       /\ (request'.op = "getBudgetAlerts" /\ GetBudgetAlerts(request'.userId)) =>
             \E l \in getUserBudgets(OwnBudgets(request'.userId), request'.userId) :
                response'.data =
                   getBudgetAlerts(OwnExpenses(request'.userId), request'.userId, l)]_vars

\* C25's case: an analysis for a user whose active budget an expense of
\* another user would match, in a store that holds a budget of that other
\* user too.
C25_Witness ==
    /\ request.op = "getBudgetAnalysis"
    /\ response.kind = "analysis"
    /\ \E id \in DOMAIN budgets : budgets[id].userId # request.userId
    /\ \E rec \in ReturnedPerformances, k \in 1..Len(expenses) :
          LET b == budgets[rec.budgetId]
              e == expenses[k]
          IN /\ e.userId # request.userId
             /\ b.startDate <= e.purchase_date.day /\ e.purchase_date.day <= b.endDate
             /\ b.category = e.category
             /\ rec.spent = 0

\* C26: whenever createBudget reports an error to its caller, the budgets
\* table holds no row it did not hold before the call, whichever step of
\* the operation failed, the read-back of the inserted row included.
C26_FailedCreateLeavesNoRow ==
    [][\A u \in Users, d \in BudgetInputs :
         ((\/ CreateBudget(u, d)
           \/ CreateBudgetStoreDown(u, d)
           \/ CreateBudgetReadBackDown(u, d))
          /\ ~response'.success)
            => DOMAIN budgets' \subseteq DOMAIN budgets]_vars

\* C27: the budget a successful updateBudget(budgetId, userId, updates)
\* returns has every supplied field equal to the value supplied, whatever
\* updateBudget and deleteBudget calls on the same budget ran between its
\* write and its read-back.
C27_UpdateReturnsTheSuppliedValues ==
    [][(UpdateBudgetReadBack /\ response'.success) =>
          /\ response'.kind = "budget"
          /\ \A f \in DOMAIN inFlight.body \cap
                      {"name", "amount", "category", "period", "startDate",
                       "endDate", "alertThreshold", "isActive"} :
                StrictEquals(response'.data[f], inFlight.body[f])]_vars

\* The sum of one field over a list of performance records.
RECURSIVE SumField(_, _)
SumField(perfs, field) ==
    IF perfs = <<>> THEN 0 ELSE Head(perfs)[field] + SumField(Tail(perfs), field)

Agree(alerts, perfs, id) ==
    LET as == {k \in 1..Len(alerts) : alerts[k].budgetId = id}
        ps == {k \in 1..Len(perfs) : perfs[k].budgetId = id}
    IN /\ Cardinality(ps) = 1
       /\ Cardinality(as) <= 1
       /\ \A p \in ps :
             /\ (as # {}) <=> (perfs[p].status # "under")
             /\ \A a \in as :
                   /\ (alerts[a].alertLevel = "exceeded") <=> (perfs[p].status = "over")
                   /\ alerts[a].percentageUsed = perfs[p].percentageUsed
                   /\ alerts[a].currentSpent = perfs[p].spent
                   /\ alerts[a].budgetAmount = perfs[p].budgetAmount

\* C29: on one store, getBudgetAlerts and getBudgetAnalysis agree on every
\* active budget of the user: it has an alert iff its status is not under,
\* the alert is exceeded iff the status is over, and percentageUsed, spent
\* and amount are the same in both.
C29_AlertsAgreeWithTheAnalysis ==
    [][/\ (request'.op = "getBudgetAlerts" /\ GetBudgetAlerts(request'.userId)) =>
            \A list \in getUserBudgets(budgets, request'.userId) :
               \A id \in ActiveIdsOf(request'.userId) :
                  Agree(response'.data,
                        getBudgetAnalysis(expenses, request'.userId, list).budgetPerformance,
                        id)
       /\ (request'.op = "getBudgetAnalysis" /\ GetBudgetAnalysis(request'.userId)) =>
            \A list \in getUserBudgets(budgets, request'.userId) :
               \A id \in ActiveIdsOf(request'.userId) :
                  Agree(getBudgetAlerts(expenses, request'.userId, list),
                        response'.data.budgetPerformance,
                        id)]_vars

\* C30: updateBudget with an update object holding none of name, amount,
\* category, period, startDate, endDate, alertThreshold, isActive (empty,
\* or unknown keys such as id and userId only) fails with 'No valid fields
\* to update' and writes nothing: the store, the budget's updatedAt
\* included, is as before.
C30_UpdateWithoutValidFieldsWritesNothing ==
    [][(/\ request'.op = "updateBudget"
        /\ DOMAIN request'.body \cap
              {"name", "amount", "category", "period", "startDate",
               "endDate", "alertThreshold", "isActive"} = {}
        /\ UpdateBudget(request'.budgetId, request'.userId, request'.body)) =>
          /\ ~response'.success
          /\ response'.status = 400
          /\ response'.error = "No valid fields to update"
          /\ budgets' = budgets
          /\ nextId' = nextId /\ expenses' = expenses]_vars

\* C30's case: an update of unknown keys only, on a budget of the caller
\* last written before now, answered with the error, the row as it was.
C30_Witness ==
    /\ request.op = "updateBudget"
    /\ request.body = [id |-> 9, userId |-> 2]
    /\ request.budgetId \in DOMAIN budgets
    /\ budgets[request.budgetId].userId = request.userId
    /\ budgets[request.budgetId].updatedAt < now
    /\ ~response.success
    /\ response.error = "No valid fields to update"

=============================================================================
